---- MODULE Spec2Model ----
(***************************************************************************)
(* Model of src/src/mltools/model.py: the configuration-driven model       *)
(* factory (setup_model), the registry loaders (load_model,                *)
(* load_model_info), their list forms and model_uri_to_version.            *)
(*                                                                         *)
(* One call is modelled per behaviour: the program is idle, one of the six *)
(* functions is called with an argument drawn from a bounded universe, and *)
(* the call ends in pc = "done" with its result (a return value or a       *)
(* raised exception) and the logs of its side effects: registry fetches,   *)
(* auxiliary file reads and objects constructed.                           *)
(***************************************************************************)
EXTENDS Integers, Sequences, FiniteSets, TLC

VARIABLES registry, lenient, pc, op, arg, items, idx, acc, result,
          fetchLog, readLog, builtLog

vars == <<registry, lenient, pc, op, arg, items, idx, acc, result,
          fetchLog, readLog, builtLog>>

(***************************************************************************)
(* Bounds of the model.                                                    *)
(***************************************************************************)
\* longest model_list the list operations are called with
MaxLen == 3

(***************************************************************************)
(* Python values.  Every value carries its type tag in field t, so that    *)
(* "is None" and "is a mapping" are decided as Python decides them.        *)
(***************************************************************************)
PyNone == [t |-> "none"]
PyStr(s) == [t |-> "str", s |-> s]
PyBool(b) == [t |-> "bool", b |-> b]
PyDict(f) == [t |-> "dict", d |-> f]
PyList(xs) == [t |-> "list", items |-> xs]

\* a key that the configuration does not hold (not a Python value)
Missing == [t |-> "missing"]
\* what a nested lookup through a non-mapping yields when the helper does not tolerate it
LookupTypeError == [t |-> "lookup-type-error"]

\* the one-entry mapping {k: v}, or the empty mapping when the key is missing
Opt(k, v) == IF v = Missing THEN <<>> ELSE (k :> v)

(***************************************************************************)
(* Outcome of a call: a return value or a raised exception, together with  *)
(* the side effects the call made, in order.                               *)
(***************************************************************************)
NoError == [exc |-> "", msg |-> ""]
Return(v, fetches, reads, built) ==
    [kind |-> "return", value |-> v, error |-> NoError,
     fetches |-> fetches, reads |-> reads, built |-> built]
Raise(exc, msg, fetches, reads, built) ==
    [kind |-> "raise", value |-> PyNone, error |-> [exc |-> exc, msg |-> msg],
     fetches |-> fetches, reads |-> reads, built |-> built]

(***************************************************************************)
(* The registry (mlflow).  A URI either resolves to a stored artifact and  *)
(* its metadata or the fetch raises.                                       *)
(***************************************************************************)
UriRun == "runs:/r1/model"
UriRegistered == "models:/clf/1"
UriOther == "runs:/r3/model"
Uris == {UriRun, UriRegistered, UriOther}

\* the run that logged the model a URI names
RunIdOf(u) == CASE u = UriRun -> "r1" [] u = UriRegistered -> "r2" [] OTHER -> "r3"

Estimator(u) == [t |-> "Estimator", logged_as |-> u]
PyFuncModel(u) ==
    [t |-> "PyFuncModel",
     model_impl |-> [t |-> "_PythonModelPyfuncWrapper",
                     python_model |-> [t |-> "PythonModel", model |-> Estimator(u)]]]
ModelInfo(u) == [t |-> "ModelInfo", model_uri |-> u, run_id |-> PyStr(RunIdOf(u))]

FetchArtifact == "mlflow.pyfunc.load_model"
FetchInfo == "mlflow.models.get_model_info"
Fetch(api, u) == [api |-> api, uri |-> u]
RegistryError(u) == [exc |-> "MlflowException", msg |-> u]

(***************************************************************************)
(* mltools.utils: the nested-key lookup and the auxiliary file readers.    *)
(***************************************************************************)
\* get_nested(d, keys, default): the value at the key path, or default when a key
\* is missing.  Through a value that is no mapping the helper either yields the
\* default (tolerant) or raises; which of the two is fixed per build.
RECURSIVE GetNested(_, _, _, _)
GetNested(d, keys, default, tolerant) ==
    IF keys = <<>> THEN d
    ELSE IF d.t # "dict" THEN (IF tolerant THEN default ELSE LookupTypeError)
    ELSE IF Head(keys) \notin DOMAIN d.d THEN default
    ELSE GetNested(d.d[Head(keys)], Tail(keys), default, tolerant)

\* os.path.join(prefix, path) for a relative path and a prefix without trailing separator
PathJoin(prefix, path) == IF prefix = "" THEN path ELSE prefix \o "/" \o path

\* the files the auxiliary readers find
ExistingFiles == {"w.csv", "/data/w.csv", "c.csv", "/data/c.csv"}
ClassWeightsAt(path) == [t |-> "class_weights", file |-> path]
CostMatrixAt(path) == [t |-> "cost_matrix", file |-> path]
ReadClassWeights == "read_class_weights_from_file"
ReadCostMatrix == "read_cost_matrix_from_file"
FileRead(fn, path) == [fn |-> fn, path |-> path]
FileError(path) == [exc |-> "FileNotFoundError", msg |-> path]

(***************************************************************************)
(* The estimators and wrappers setup_model constructs.  They are opaque    *)
(* collaborators: a constructed object is the record of its class and of   *)
(* the arguments it was constructed with.                                  *)
(***************************************************************************)
KNeighborsClassifier(kwargs) == [t |-> "KNeighborsClassifier", kwargs |-> PyDict(kwargs)]
SVC(kwargs) == [t |-> "SVC", kwargs |-> PyDict(kwargs)]
RandomForestClassifier(kwargs) == [t |-> "RandomForestClassifier", kwargs |-> PyDict(kwargs)]
TF_IDF_Classifier(baseline_classifier, model_name) ==
    [t |-> "TF_IDF_Classifier", baseline_classifier |-> baseline_classifier,
     model_name |-> model_name, class_weights |-> PyNone]
set_class_weights(model, class_weights_dict) == [model EXCEPT !.class_weights = class_weights_dict]
TF_IDF_XGBoost_Classifier(model_name, parameters, class_weights, cost_matrix) ==
    [t |-> "TF_IDF_XGBoost_Classifier", model_name |-> model_name,
     parameters |-> PyDict(parameters), class_weights |-> class_weights,
     cost_matrix |-> cost_matrix]
TextPreprocessor(kwargs) == [t |-> "TextPreprocessor", kwargs |-> PyDict(kwargs)]
Relabeller(kwargs) == [t |-> "Relabeller", kwargs |-> PyDict(kwargs)]
FunctionTransformer(func, kw_args) ==
    [t |-> "FunctionTransformer", func |-> func, kw_args |-> PyDict(kw_args)]
BoundMethod(obj, name) == [t |-> "method", self |-> obj, name |-> name]
PredictTransformerWrapper(transformer, transforms_X, transforms_y) ==
    [t |-> "PredictTransformerWrapper", transformer |-> transformer,
     transforms_X |-> transforms_X, transforms_y |-> transforms_y]

(***************************************************************************)
(* load_model, load_model_info, model_uri_to_version.                      *)
(***************************************************************************)
\* pyfunc_model._PyFuncModel__model_impl.python_model.model
Unwrap(pyfunc_model) == pyfunc_model.model_impl.python_model.model

UriNotProvided == "Model uri not provided."

\* load_model with the pyfunc wrapper returned as fetched
LoadModel_NoUnwrap(config, reg, tolerant) ==
    LET model_uri == GetNested(config, <<"model", "uri">>, PyNone, tolerant) IN
    IF model_uri = LookupTypeError THEN Raise("TypeError", "config is not a mapping", <<>>, <<>>, <<>>)
    ELSE IF model_uri = PyNone THEN Raise("ValueError", UriNotProvided, <<>>, <<>>, <<>>)
    ELSE LET fetches == <<Fetch(FetchArtifact, model_uri.s)>> IN
         IF reg[model_uri.s] # "stored"
         THEN Raise(RegistryError(model_uri.s).exc, RegistryError(model_uri.s).msg, fetches, <<>>, <<>>)
         ELSE Return(PyFuncModel(model_uri.s), fetches, <<>>, <<>>)

LoadModel(config, reg, tolerant) ==
    LET model_uri == GetNested(config, <<"model", "uri">>, PyNone, tolerant) IN
    IF model_uri = LookupTypeError THEN Raise("TypeError", "config is not a mapping", <<>>, <<>>, <<>>)
    ELSE IF model_uri = PyNone THEN Raise("ValueError", UriNotProvided, <<>>, <<>>, <<>>)
    ELSE LET fetches == <<Fetch(FetchArtifact, model_uri.s)>> IN
         IF reg[model_uri.s] # "stored"
         THEN Raise(RegistryError(model_uri.s).exc, RegistryError(model_uri.s).msg, fetches, <<>>, <<>>)
         ELSE Return(Unwrap(PyFuncModel(model_uri.s)), fetches, <<>>, <<>>)

LoadModelInfo(config, reg, tolerant) ==
    LET model_uri == GetNested(config, <<"model", "uri">>, PyNone, tolerant) IN
    IF model_uri = LookupTypeError THEN Raise("TypeError", "config is not a mapping", <<>>, <<>>, <<>>)
    ELSE IF model_uri = PyNone THEN Raise("ValueError", UriNotProvided, <<>>, <<>>, <<>>)
    ELSE LET fetches == <<Fetch(FetchInfo, model_uri.s)>> IN
         IF reg[model_uri.s] # "stored"
         THEN Raise(RegistryError(model_uri.s).exc, RegistryError(model_uri.s).msg, fetches, <<>>, <<>>)
         ELSE Return(ModelInfo(model_uri.s), fetches, <<>>, <<>>)

\* the text between the scheme and the last path segment of the URI
UriSegment(u) == CASE u = UriRun -> "r1" [] u = UriRegistered -> "clf" [] OTHER -> "r3"
\* model_uri_to_version with the version cut out of the URI text
ModelUriToVersion_FromUri(model_uri, reg) ==
    Return(PyStr(UriSegment(model_uri)), <<>>, <<>>, <<>>)

ModelUriToVersion(model_uri, reg) ==
    LET fetches == <<Fetch(FetchInfo, model_uri)>> IN
    IF reg[model_uri] # "stored"
    THEN Raise(RegistryError(model_uri).exc, RegistryError(model_uri).msg, fetches, <<>>, <<>>)
    ELSE Return(ModelInfo(model_uri).run_id, fetches, <<>>, <<>>)

(***************************************************************************)
(* setup_model.                                                            *)
(***************************************************************************)
TypeNotProvided == "Model type not provided."
FilePathNotProvided == "Class weights file path not provided."
NotRecognized(model_type) == "Model type " \o model_type \o " not recognized."

\* the auxiliary reads made so far come before those of the rest of the call
WithReads(reads, res) == [res EXCEPT !.reads = reads \o @]

\* the class weights options with the file path defaulting to '' instead of being required
ClassWeights_DefaultPath(config, path_prefix, tolerant) ==
    LET class_weights_config_dict == GetNested(config, <<"model", "class_weights">>, PyNone, tolerant) IN
    IF class_weights_config_dict = PyNone
    THEN [kind |-> "ok", error |-> NoError, reads |-> <<>>,
          has_class_weights |-> FALSE, class_weights_dict |-> PyNone]
    ELSE LET class_weights_file_path ==
                 GetNested(class_weights_config_dict, <<"file_path">>, PyStr(""), tolerant)
             class_weights_full_file_path == PathJoin(path_prefix.s, class_weights_file_path.s)
             reads == <<FileRead(ReadClassWeights, class_weights_full_file_path)>> IN
         IF class_weights_full_file_path \notin ExistingFiles
         THEN [kind |-> "raise", error |-> FileError(class_weights_full_file_path),
               reads |-> reads, has_class_weights |-> TRUE, class_weights_dict |-> PyNone]
         ELSE [kind |-> "ok", error |-> NoError, reads |-> reads,
               has_class_weights |-> TRUE,
               class_weights_dict |-> ClassWeightsAt(class_weights_full_file_path)]

\* the class weights options
ClassWeights(config, path_prefix, tolerant) ==
    LET class_weights_config_dict == GetNested(config, <<"model", "class_weights">>, PyNone, tolerant) IN
    IF class_weights_config_dict = PyNone
    THEN [kind |-> "ok", error |-> NoError, reads |-> <<>>,
          has_class_weights |-> FALSE, class_weights_dict |-> PyNone]
    ELSE LET class_weights_file_path ==
                 GetNested(class_weights_config_dict, <<"file_path">>, PyNone, tolerant) IN
         IF class_weights_file_path = PyNone
         THEN [kind |-> "raise", error |-> [exc |-> "ValueError", msg |-> FilePathNotProvided],
               reads |-> <<>>, has_class_weights |-> TRUE, class_weights_dict |-> PyNone]
         ELSE LET class_weights_full_file_path == PathJoin(path_prefix.s, class_weights_file_path.s)
                  reads == <<FileRead(ReadClassWeights, class_weights_full_file_path)>> IN
              IF class_weights_full_file_path \notin ExistingFiles
              THEN [kind |-> "raise", error |-> FileError(class_weights_full_file_path),
                    reads |-> reads, has_class_weights |-> TRUE, class_weights_dict |-> PyNone]
              ELSE [kind |-> "ok", error |-> NoError, reads |-> reads,
                    has_class_weights |-> TRUE,
                    class_weights_dict |-> ClassWeightsAt(class_weights_full_file_path)]

\* the nearest-neighbor branch with the estimator left at its defaults
BuildKNN_DefaultParameters(parameters, model_name) ==
    Return(TF_IDF_Classifier(KNeighborsClassifier(<<>>), model_name),
           <<>>, <<>>, <<"KNeighborsClassifier", "TF_IDF_Classifier">>)

BuildKNN(parameters, model_name) ==
    LET baseline_classifier == KNeighborsClassifier(parameters.d) IN
    Return(TF_IDF_Classifier(baseline_classifier, model_name),
           <<>>, <<>>, <<"KNeighborsClassifier", "TF_IDF_Classifier">>)

BuildSVM(parameters, model_name, has_class_weights, class_weights_dict) ==
    IF "probability" \in DOMAIN parameters.d
    THEN Raise("TypeError", "multiple values for keyword argument 'probability'", <<>>, <<>>, <<>>)
    ELSE LET baseline_classifier == SVC(("probability" :> PyBool(TRUE)) @@ parameters.d)
             model == TF_IDF_Classifier(baseline_classifier, model_name) IN
         Return(IF has_class_weights THEN set_class_weights(model, class_weights_dict) ELSE model,
                <<>>, <<>>, <<"SVC", "TF_IDF_Classifier">>)

\* the random-forest branch without the set_class_weights call
BuildRF_NoWeights(parameters, model_name, has_class_weights, class_weights_dict) ==
    Return(TF_IDF_Classifier(RandomForestClassifier(parameters.d), model_name),
           <<>>, <<>>, <<"RandomForestClassifier", "TF_IDF_Classifier">>)

BuildRF(parameters, model_name, has_class_weights, class_weights_dict) ==
    LET baseline_classifier == RandomForestClassifier(parameters.d)
        model == TF_IDF_Classifier(baseline_classifier, model_name) IN
    Return(IF has_class_weights THEN set_class_weights(model, class_weights_dict) ELSE model,
           <<>>, <<>>, <<"RandomForestClassifier", "TF_IDF_Classifier">>)

BuildXGBoost(config, path_prefix, parameters, model_name, class_weights_dict, tolerant) ==
    LET cost_matrix_filepath == GetNested(config, <<"model", "cost_matrix">>, PyNone, tolerant) IN
    IF cost_matrix_filepath = PyNone
    THEN Return(TF_IDF_XGBoost_Classifier(model_name, parameters.d, class_weights_dict, PyNone),
                <<>>, <<>>, <<"TF_IDF_XGBoost_Classifier">>)
    ELSE LET full == PathJoin(path_prefix.s, cost_matrix_filepath.s)
             reads == <<FileRead(ReadCostMatrix, full)>> IN
         IF full \notin ExistingFiles
         THEN Raise(FileError(full).exc, FileError(full).msg, <<>>, reads, <<>>)
         ELSE Return(TF_IDF_XGBoost_Classifier(model_name, parameters.d, class_weights_dict,
                                               CostMatrixAt(full)),
                     <<>>, reads, <<"TF_IDF_XGBoost_Classifier">>)

BuildTextPreprocessor(config, parameters) ==
    LET preprocessor == TextPreprocessor(parameters.d) IN
    IF \/ "parameters" \notin DOMAIN config.d["model"].d
       \/ "preprocess_stack" \notin DOMAIN config.d["model"].d["parameters"].d
    THEN Raise("KeyError", IF "parameters" \notin DOMAIN config.d["model"].d
                           THEN "parameters" ELSE "preprocess_stack",
               <<>>, <<>>, <<"TextPreprocessor">>)
    ELSE LET transformer ==
                 FunctionTransformer(BoundMethod(preprocessor, "preprocess_iterable"),
                     "preprocess_stack" :> config.d["model"].d["parameters"].d["preprocess_stack"]) IN
         Return(PredictTransformerWrapper(transformer, TRUE, FALSE),
                <<>>, <<>>, <<"TextPreprocessor", "FunctionTransformer", "PredictTransformerWrapper">>)

BuildRelabeller(parameters) ==
    LET preprocessor == Relabeller(parameters.d) IN
    Return(PredictTransformerWrapper(preprocessor, FALSE, TRUE),
           <<>>, <<>>, <<"Relabeller", "FunctionTransformer", "PredictTransformerWrapper">>)

\* the final else branch with a message that leaves the type out
UnrecognizedType_Anonymous(model_type) ==
    Raise("ValueError", "Model type not recognized.", <<>>, <<>>, <<>>)

UnrecognizedType(model_type) ==
    Raise("ValueError", NotRecognized(model_type.s), <<>>, <<>>, <<>>)

\* the chain of conditionals on model_type
Dispatch(config, path_prefix, model_type, model_name, parameters, cw, tolerant) ==
    CASE model_type = PyStr("TF-IDF-KNN") -> BuildKNN(parameters, model_name)
      [] model_type = PyStr("TF-IDF-SVM") ->
            BuildSVM(parameters, model_name, cw.has_class_weights, cw.class_weights_dict)
      [] model_type = PyStr("TF-IDF-RF") ->
            BuildRF(parameters, model_name, cw.has_class_weights, cw.class_weights_dict)
      [] model_type = PyStr("TF-IDF-XGBoost") ->
            BuildXGBoost(config, path_prefix, parameters, model_name, cw.class_weights_dict, tolerant)
      [] model_type = PyStr("TextPreprocessor") -> BuildTextPreprocessor(config, parameters)
      [] model_type = PyStr("Relabeller") -> BuildRelabeller(parameters)
      [] OTHER -> UnrecognizedType(model_type)

\* setup_model with the model.type check moved after the class weights options
SetupNewModel_LateTypeCheck(config, path_prefix, tolerant) ==
    LET model_type == GetNested(config, <<"model", "type">>, PyNone, tolerant)
        model_name == GetNested(config, <<"model", "name">>, PyNone, tolerant)
        parameters == GetNested(config, <<"model", "parameters">>, PyDict(<<>>), tolerant)
        cw == ClassWeights(config, path_prefix, tolerant) IN
    IF cw.kind = "raise" THEN Raise(cw.error.exc, cw.error.msg, <<>>, cw.reads, <<>>)
    ELSE IF model_type = PyNone THEN Raise("ValueError", TypeNotProvided, <<>>, cw.reads, <<>>)
    ELSE WithReads(cw.reads,
             Dispatch(config, path_prefix, model_type, model_name, parameters, cw, tolerant))

\* setup_model once no URI was given: create a new model
SetupNewModel(config, path_prefix, tolerant) ==
    LET model_type == GetNested(config, <<"model", "type">>, PyNone, tolerant) IN
    IF model_type = PyNone THEN Raise("ValueError", TypeNotProvided, <<>>, <<>>, <<>>)
    ELSE LET model_name == GetNested(config, <<"model", "name">>, PyNone, tolerant)
             parameters == GetNested(config, <<"model", "parameters">>, PyDict(<<>>), tolerant)
             cw == ClassWeights(config, path_prefix, tolerant) IN
         IF cw.kind = "raise" THEN Raise(cw.error.exc, cw.error.msg, <<>>, cw.reads, <<>>)
         ELSE WithReads(cw.reads,
                  Dispatch(config, path_prefix, model_type, model_name, parameters, cw, tolerant))

SetupModel(config, reg, tolerant) ==
    LET path_prefix == GetNested(config, <<"global", "root_path">>, PyStr(""), tolerant)
        model_uri == GetNested(config, <<"model", "uri">>, PyNone, tolerant) IN
    IF model_uri # PyNone THEN LoadModel(model_uri, reg, tolerant)
    ELSE SetupNewModel(config, path_prefix, tolerant)

(***************************************************************************)
(* The configurations the functions are called with.                       *)
(***************************************************************************)
KnownTypes == {"TF-IDF-KNN", "TF-IDF-SVM", "TF-IDF-RF", "TF-IDF-XGBoost",
               "TextPreprocessor", "Relabeller"}
UnknownTypes == {"TF-IDF-LSTM", "tf-idf-knn"}

UriOpts == {Missing} \cup {PyStr(u) : u \in Uris}
TypeOpts == {Missing} \cup {PyStr(ty) : ty \in KnownTypes \cup UnknownTypes}
NameOpts == {Missing, PyStr("clf")}
ParameterOpts == {Missing, PyDict("n_neighbors" :> PyStr("3")),
                  PyDict("preprocess_stack" :> PyStr("lowercase")),
                  PyDict("probability" :> PyStr("False"))}
ClassWeightsOpts == {Missing, PyDict("relative_or_absolute" :> PyStr("relative")),
                     PyDict("file_path" :> PyStr("w.csv")),
                     PyDict("file_path" :> PyStr("nofile.csv"))}
CostMatrixOpts == {Missing, PyStr("c.csv"), PyStr("nofile.csv")}
RootPathOpts == {Missing, PyStr("/data")}

MkConfig(uri, type, name, parameters, class_weights, cost_matrix, root_path) ==
    PyDict(("model" :> PyDict(Opt("uri", uri) @@ Opt("type", type) @@ Opt("name", name)
                              @@ Opt("parameters", parameters)
                              @@ Opt("class_weights", class_weights)
                              @@ Opt("cost_matrix", cost_matrix)))
           @@ (IF root_path = Missing THEN <<>>
               ELSE "global" :> PyDict("root_path" :> root_path)))

\* setup_model reads every key; two of the URIs stand for all of them
SetupConfigs ==
    {PyDict(<<>>)} \cup
    {MkConfig(uri, type, name, parameters, class_weights, cost_matrix, root_path) :
        uri \in {Missing, PyStr(UriRun), PyStr(UriRegistered)}, type \in TypeOpts,
        name \in NameOpts, parameters \in ParameterOpts, class_weights \in ClassWeightsOpts,
        cost_matrix \in CostMatrixOpts, root_path \in RootPathOpts}

\* load_model and load_model_info read model.uri only
LoadConfigs ==
    {PyDict(<<>>)} \cup
    {MkConfig(uri, type, Missing, Missing, class_weights, Missing, Missing) :
        uri \in UriOpts, type \in {Missing, PyStr("TF-IDF-KNN")},
        class_weights \in {Missing, PyDict("file_path" :> PyStr("w.csv"))}}

UriLists == UNION {[1..n -> {PyStr(u) : u \in Uris}] : n \in 0..MaxLen}
ListConfigs == {PyDict(<<>>)} \cup {PyDict("model_list" :> PyList(xs)) : xs \in UriLists}

\* {'model': {'uri': model_uri}}
ElemConfig(model_uri) == PyDict("model" :> PyDict("uri" :> model_uri))

(***************************************************************************)
(* The state machine: one call, from "idle" to "done".                     *)
(***************************************************************************)
NoResult == [kind |-> "none", value |-> PyNone, error |-> NoError]
Outcome(res) == [kind |-> res.kind, value |-> res.value, error |-> res.error]

Init ==
    /\ registry \in [Uris -> {"stored", "absent"}]
    /\ lenient \in BOOLEAN
    /\ pc = "idle"
    /\ op = ""
    /\ arg = PyNone
    /\ items = <<>>
    /\ idx = 0
    /\ acc = <<>>
    /\ result = NoResult
    /\ fetchLog = <<>>
    /\ readLog = <<>>
    /\ builtLog = <<>>

\* a call that runs to its end in one step
Complete(name, a, res) ==
    /\ pc = "idle"
    /\ pc' = "done"
    /\ op' = name
    /\ arg' = a
    /\ result' = Outcome(res)
    /\ fetchLog' = res.fetches
    /\ readLog' = res.reads
    /\ builtLog' = res.built
    /\ UNCHANGED <<registry, lenient, items, idx, acc>>

CallLoadModel ==
    /\ pc = "idle"
    /\ \E config \in LoadConfigs : Complete("load_model", config, LoadModel(config, registry, lenient))

CallLoadModelInfo ==
    /\ pc = "idle"
    /\ \E config \in LoadConfigs :
        Complete("load_model_info", config, LoadModelInfo(config, registry, lenient))

CallSetupModel ==
    /\ pc = "idle"
    /\ \E config \in SetupConfigs :
        Complete("setup_model", config, SetupModel(config, registry, lenient))

CallModelUriToVersion ==
    /\ pc = "idle"
    /\ \E model_uri \in Uris :
        Complete("model_uri_to_version", PyStr(model_uri), ModelUriToVersion(model_uri, registry))

\* the list comprehension starts: config['model_list'] is evaluated
BeginList(name, config) ==
    /\ pc = "idle"
    /\ op' = name
    /\ arg' = config
    /\ UNCHANGED <<registry, lenient, acc, fetchLog, readLog, builtLog>>
    /\ IF "model_list" \notin DOMAIN config.d
       THEN /\ pc' = "done"
            /\ result' = Outcome(Raise("KeyError", "model_list", <<>>, <<>>, <<>>))
            /\ UNCHANGED <<items, idx>>
       ELSE /\ pc' = "iterating"
            /\ items' = config.d["model_list"].items
            /\ idx' = 1
            /\ UNCHANGED result

\* the comprehension step building the list back to front
Iterate_Prepend(r) ==
    /\ fetchLog' = fetchLog \o r.fetches
    /\ IF r.kind = "raise"
       THEN /\ pc' = "done"
            /\ result' = Outcome(r)
            /\ acc' = <<>>
            /\ UNCHANGED idx
       ELSE /\ acc' = <<r.value>> \o acc
            /\ idx' = idx + 1
            /\ UNCHANGED <<pc, result>>
    /\ UNCHANGED <<registry, lenient, op, arg, items, readLog, builtLog>>

\* the comprehension step skipping an element whose load failed
Iterate_SkipFailed(r) ==
    /\ fetchLog' = fetchLog \o r.fetches
    /\ acc' = IF r.kind = "raise" THEN acc ELSE Append(acc, r.value)
    /\ idx' = idx + 1
    /\ UNCHANGED <<registry, lenient, pc, result, op, arg, items, readLog, builtLog>>

\* one element of the comprehension was loaded with outcome r
Iterate(r) ==
    /\ fetchLog' = fetchLog \o r.fetches
    /\ IF r.kind = "raise"
       THEN /\ pc' = "done"
            /\ result' = Outcome(r)
            /\ acc' = <<>>
            /\ UNCHANGED idx
       ELSE /\ acc' = Append(acc, r.value)
            /\ idx' = idx + 1
            /\ UNCHANGED <<pc, result>>
    /\ UNCHANGED <<registry, lenient, op, arg, items, readLog, builtLog>>

\* the comprehension is exhausted: the list is returned
EndList ==
    /\ pc' = "done"
    /\ result' = Outcome(Return(PyList(acc), <<>>, <<>>, <<>>))
    /\ UNCHANGED <<registry, lenient, op, arg, items, idx, acc, fetchLog, readLog, builtLog>>

CallLoadModelList ==
    /\ pc = "idle"
    /\ \E config \in ListConfigs : BeginList("load_model_list", config)

LoadModelListStep ==
    /\ pc = "iterating"
    /\ op = "load_model_list"
    /\ IF idx > Len(items) THEN EndList
       ELSE Iterate(LoadModel(ElemConfig(items[idx]), registry, lenient))

CallLoadModelInfoList ==
    /\ pc = "idle"
    /\ \E config \in ListConfigs : BeginList("load_model_info_list", config)

LoadModelInfoListStep ==
    /\ pc = "iterating"
    /\ op = "load_model_info_list"
    /\ IF idx > Len(items) THEN EndList
       ELSE Iterate(LoadModelInfo(ElemConfig(items[idx]), registry, lenient))

Next ==
    \/ CallLoadModel
    \/ CallLoadModelInfo
    \/ CallSetupModel
    \/ CallModelUriToVersion
    \/ CallLoadModelList
    \/ LoadModelListStep
    \/ CallLoadModelInfoList
    \/ LoadModelInfoListStep

Spec == Init /\ [][Next]_vars

(***************************************************************************)
(* Vocabulary of the properties: what the call was given and what it did.  *)
(***************************************************************************)
\* the value of model.<k> in the configuration, or Missing
ModelKey(config, k) ==
    IF "model" \in DOMAIN config.d /\ k \in DOMAIN config.d["model"].d
    THEN config.d["model"].d[k] ELSE Missing
RootPath(config) ==
    IF "global" \in DOMAIN config.d THEN config.d["global"].d["root_path"].s ELSE ""
Finished(name) == pc = "done" /\ op = name
\* setup_model ended on a configuration without model.uri
SetupWithoutUri == Finished("setup_model") /\ ModelKey(arg, "uri") = Missing
\* model.class_weights is absent, or names a file that the reader finds
ClassWeightsUsable(config) ==
    LET cw == ModelKey(config, "class_weights") IN
    \/ cw = Missing
    \/ /\ "file_path" \in DOMAIN cw.d
       /\ PathJoin(RootPath(config), cw.d["file_path"].s) \in ExistingFiles
\* the class weights that the call read, if it read any
WeightsRead == {ClassWeightsAt(readLog[i].path) :
                   i \in {j \in DOMAIN readLog : /\ readLog[j].fn = ReadClassWeights
                                                 /\ readLog[j].path \in ExistingFiles}}
CostsRead == {CostMatrixAt(readLog[i].path) :
                 i \in {j \in DOMAIN readLog : /\ readLog[j].fn = ReadCostMatrix
                                               /\ readLog[j].path \in ExistingFiles}}
\* the model object holds the class weights w
OwnsWeights(model, w) ==
    /\ model.t \in {"TF_IDF_Classifier", "TF_IDF_XGBoost_Classifier"}
    /\ model.class_weights = w
IsListOp == op \in {"load_model_list", "load_model_info_list"}
HasList == "model_list" \in DOMAIN arg.d
UriList == arg.d["model_list"].items
Stored(u) == registry[u.s] = "stored"
ListApi == IF op = "load_model_list" THEN FetchArtifact ELSE FetchInfo
\* what the registry holds for a URI: the estimator inside the artifact, or the metadata
Loaded(u) == IF op \in {"load_model_list", "load_model"} THEN Estimator(u.s) ELSE ModelInfo(u.s)

(***************************************************************************)
(* Properties.                                                             *)
(***************************************************************************)

\* C1: whenever model.uri is present, setup_model returns what load_model returns
\* for the same configuration (the estimator unwrapped from the artifact stored
\* for that URI), fetching as load_model fetches, and it constructs no model and
\* reads no auxiliary file.
C1_SetupDelegatesToLoad ==
    (Finished("setup_model") /\ ModelKey(arg, "uri") # Missing) =>
        /\ result = Outcome(LoadModel(arg, registry, lenient))
        /\ fetchLog = LoadModel(arg, registry, lenient).fetches
        /\ readLog = <<>>
        /\ builtLog = <<>>

\* C2 as stated: without model.uri and with a model.type outside the six known
\* tags, setup_model fails with an error naming that type string whatever the
\* other keys hold, and returns no model.
C2_UnknownTypeAlwaysNamed ==
    (SetupWithoutUri /\ ModelKey(arg, "type") \in {PyStr(ty) : ty \in UnknownTypes}) =>
        /\ result.kind = "raise"
        /\ result.value = PyNone
        /\ result.error = [exc |-> "ValueError", msg |-> NotRecognized(ModelKey(arg, "type").s)]

\* C2 amended: without model.uri and with a model.type outside the six known
\* tags, setup_model returns no model and constructs none; its error names the
\* type string when model.class_weights is absent or names a file that is read,
\* and is the class-weights error (missing file path, or the failed read) otherwise.
C2_UnknownTypeNamedAfterClassWeights ==
    (SetupWithoutUri /\ ModelKey(arg, "type") \in {PyStr(ty) : ty \in UnknownTypes}) =>
        /\ result.kind = "raise"
        /\ result.value = PyNone
        /\ builtLog = <<>>
        /\ IF ClassWeightsUsable(arg)
           THEN result.error =
                    [exc |-> "ValueError", msg |-> NotRecognized(ModelKey(arg, "type").s)]
           ELSE IF "file_path" \notin DOMAIN ModelKey(arg, "class_weights").d
           THEN result.error = [exc |-> "ValueError", msg |-> FilePathNotProvided]
           ELSE result.error.exc = "FileNotFoundError"

\* an unknown type is named although class weights were configured and read
C2_Witness ==
    /\ SetupWithoutUri
    /\ ModelKey(arg, "type") = PyStr("tf-idf-knn")
    /\ ModelKey(arg, "class_weights") # Missing
    /\ Len(readLog) = 1
    /\ result.error.msg = NotRecognized("tf-idf-knn")

\* C3: with model.uri and model.type both absent, setup_model fails with an error,
\* before any auxiliary file read, any registry call and any construction.
C3_NoUriNoTypeFailsFirst ==
    (SetupWithoutUri /\ ModelKey(arg, "type") = Missing) =>
        /\ result.kind = "raise"
        /\ result.error.exc = "ValueError"
        /\ readLog = <<>>
        /\ fetchLog = <<>>
        /\ builtLog = <<>>

\* the failure happens although a readable class-weights file is configured
C3_Witness ==
    /\ SetupWithoutUri
    /\ ModelKey(arg, "type") = Missing
    /\ ModelKey(arg, "class_weights") = PyDict("file_path" :> PyStr("w.csv"))
    /\ result.kind = "raise"

FirstFailure ==
    IF \A i \in DOMAIN UriList : Stored(UriList[i]) THEN 0
    ELSE CHOOSE i \in DOMAIN UriList :
             /\ ~Stored(UriList[i])
             /\ \A j \in 1..(i - 1) : Stored(UriList[j])

\* C6: the list operations fetch the URIs in list order, each at most once, and
\* when the fetch of the i-th URI fails the call fails with that error, returns
\* no list, and fetches no URI after the i-th.
C6_FirstFailureAborts ==
    (pc \in {"iterating", "done"} /\ IsListOp /\ HasList) =>
        /\ Len(fetchLog) <= Len(UriList)
        /\ \A j \in DOMAIN fetchLog : fetchLog[j] = Fetch(ListApi, UriList[j].s)
        /\ \A j \in 1..(Len(fetchLog) - 1) : Stored(UriList[j])
        /\ (pc = "done" /\ FirstFailure # 0) =>
              /\ Len(fetchLog) = FirstFailure
              /\ result.kind = "raise"
              /\ result.value = PyNone
              /\ result.error = RegistryError(UriList[FirstFailure].s)

\* the second of three fetches failed and the third URI, which is stored, was not fetched
C6_Witness ==
    /\ Finished("load_model_info_list")
    /\ HasList
    /\ Len(UriList) = 3
    /\ Stored(UriList[1])
    /\ ~Stored(UriList[2])
    /\ Stored(UriList[3])
    /\ Len(fetchLog) = 2
    /\ result.kind = "raise"

\* C7: without model.uri and with a model.type, a model.class_weights that has no
\* file_path makes setup_model fail before any file read: neither the class
\* weights nor the cost matrix is read and no model is constructed.
C7_MissingFilePathFailsBeforeRead ==
    (/\ SetupWithoutUri
     /\ ModelKey(arg, "type") # Missing
     /\ ModelKey(arg, "class_weights") # Missing
     /\ "file_path" \notin DOMAIN ModelKey(arg, "class_weights").d) =>
        /\ result.kind = "raise"
        /\ result.error = [exc |-> "ValueError", msg |-> FilePathNotProvided]
        /\ readLog = <<>>
        /\ builtLog = <<>>

\* the failure happens for the gradient-boosted type with a readable cost matrix configured
C7_Witness ==
    /\ SetupWithoutUri
    /\ ModelKey(arg, "type") = PyStr("TF-IDF-XGBoost")
    /\ ModelKey(arg, "cost_matrix") = PyStr("c.csv")
    /\ ModelKey(arg, "class_weights") = PyDict("relative_or_absolute" :> PyStr("relative"))
    /\ result.kind = "raise"

C9_VersionIsRunId ==
    Finished("model_uri_to_version") =>
        /\ fetchLog = <<Fetch(FetchInfo, arg.s)>>
        /\ Stored(arg) =>
              /\ result.kind = "return"
              /\ result.value = PyStr(RunIdOf(arg.s))
              /\ result.value = LoadModelInfo(ElemConfig(arg), registry, lenient).value.run_id

\* the version of a registered-model URI, whose text does not hold the run identifier
C9_Witness ==
    /\ Finished("model_uri_to_version")
    /\ arg = PyStr(UriRegistered)
    /\ result = [kind |-> "return", value |-> PyStr("r2"), error |-> NoError]

\* C10 as stated: whenever setup_model read class weights and returned a model,
\* the model owns them, for each of the six types (and for TF-IDF-XGBoost the cost
\* matrix that was read too).
C10_WeightsOwnedForEveryType ==
    (Finished("setup_model") /\ result.kind = "return") =>
        /\ \A w \in WeightsRead : OwnsWeights(result.value, w)
        /\ \A c \in CostsRead : result.value.cost_matrix = c

\* C10 amended: whenever setup_model read class weights and returned a model of
\* type TF-IDF-SVM, TF-IDF-RF or TF-IDF-XGBoost, the model owns them (and for
\* TF-IDF-XGBoost the cost matrix that was read too); for TF-IDF-KNN,
\* TextPreprocessor and Relabeller the weights are read and not attached.
C10_WeightsOwnedWhereSupported ==
    (Finished("setup_model") /\ result.kind = "return") =>
        LET type == ModelKey(arg, "type") IN
        /\ type \in {PyStr("TF-IDF-SVM"), PyStr("TF-IDF-RF"), PyStr("TF-IDF-XGBoost")} =>
              /\ \A w \in WeightsRead : OwnsWeights(result.value, w)
              /\ \A c \in CostsRead : result.value.cost_matrix = c
        /\ type \in {PyStr("TF-IDF-KNN"), PyStr("TextPreprocessor"), PyStr("Relabeller")} =>
              \A w \in WeightsRead : ~OwnsWeights(result.value, w)

\* a gradient-boosted model was returned holding the weights and the costs read under the root path
C10_Witness ==
    /\ Finished("setup_model")
    /\ ModelKey(arg, "type") = PyStr("TF-IDF-XGBoost")
    /\ result.kind = "return"
    /\ WeightsRead = {ClassWeightsAt("/data/w.csv")}
    /\ CostsRead = {CostMatrixAt("/data/c.csv")}
    /\ result.value.class_weights = ClassWeightsAt("/data/w.csv")
    /\ result.value.cost_matrix = CostMatrixAt("/data/c.csv")

====
